---------------------------- MODULE Spec2Model ----------------------------
(***************************************************************************)
(* A model of the cora numeric foundation:                                 *)
(*   - error/mod.rs : Failure / FailedError (construction, equality,       *)
(*                    display)                                             *)
(*   - numbers.rs   : the Real contract for f32 and f64 (ln_1pe, sigmoid,  *)
(*                    to_f32_bits)                                         *)
(*   - linalg/mod.rs: the default methods of BaseVector (from_array,       *)
(*                    add/sub/mul/div, var, ...)                           *)
(* Floating-point values are IEEE-754 binary32 / binary64 numbers; their   *)
(* significands are multi-limb naturals because TLC's integers are 32     *)
(* bits wide.  The arithmetic operations round to nearest, ties to even;   *)
(* exp and ln_1p come from the platform's libm and are modelled as the set *)
(* of results within one unit in the last place of the exact value.        *)
(***************************************************************************)
EXTENDS Integers, Sequences, FiniteSets, TLC

VARIABLES
    failures,   \* the Failure values constructed so far: Seq([err, msg])
    built,      \* history: what each Failure was constructed with
    fres,       \* the last operation on the error taxonomy and its result
    vfmt,       \* the element type T of the vectors: F32 or F64
    heap,       \* the storage of the live vectors: Seq(Seq(T)), index = identity
    vres,       \* the last vector operation and its result
    pure,       \* history: the last add/sub/mul/div call, its operands as they
                \* were, and the vector it returned

    rcall       \* the call on a Real number under way or completed: the
                \* method, the type, the receiver(s) and, once done, the result

fvars == <<failures, built, fres>>
vvars == <<vfmt, heap, vres, pure>>
rvars == <<rcall>>

vars == <<failures, built, fres, vfmt, heap, vres, pure, rcall>>

-----------------------------------------------------------------------------
(***************************************************************************)
(* Natural numbers of any size: little-endian sequences of 15-bit limbs,   *)
(* without leading zero limbs (zero is the empty sequence).  They carry    *)
(* the significands and bit patterns of f32 and f64 values.                *)
(***************************************************************************)

Base == 2^15

\* The limbs of a function over 1..n as a sequence value.
Limbs(f) == f \o <<>>

\* Drop the leading (most significant) zero limbs.
BTrim(a) ==
    IF \A i \in 1..Len(a) : a[i] = 0 THEN <<>>
    ELSE SubSeq(a, 1, CHOOSE i \in 1..Len(a) :
                          a[i] # 0 /\ \A j \in (i + 1)..Len(a) : a[j] = 0)

RECURSIVE BFromNat(_)
BFromNat(n) == IF n = 0 THEN <<>> ELSE <<n % Base>> \o BFromNat(n \div Base)

\* The value of a natural known to be below 2^31.
RECURSIVE BToNat(_)
BToNat(a) == IF a = <<>> THEN 0 ELSE a[1] + Base * BToNat(Tail(a))

BLimb(a, i) == IF i <= Len(a) THEN a[i] ELSE 0

BMaxLen(a, b) == IF Len(a) >= Len(b) THEN Len(a) ELSE Len(b)

\* The carry into limb i of a + b: some lower limb generates a carry and
\* every limb between propagates it.
BCarryIn(a, b, i) ==
    IF \E j \in 1..(i - 1) :
          /\ BLimb(a, j) + BLimb(b, j) >= Base
          /\ \A k \in (j + 1)..(i - 1) : BLimb(a, k) + BLimb(b, k) = Base - 1
    THEN 1 ELSE 0

BAdd(a, b) ==
    BTrim(Limbs([i \in 1..(BMaxLen(a, b) + 1) |->
                    (BLimb(a, i) + BLimb(b, i) + BCarryIn(a, b, i)) % Base]))

\* The borrow out of limb i of a - b.
BBorrowIn(a, b, i) ==
    IF \E j \in 1..(i - 1) :
          /\ BLimb(a, j) < BLimb(b, j)
          /\ \A k \in (j + 1)..(i - 1) : BLimb(a, k) = BLimb(b, k)
    THEN 1 ELSE 0

\* a - b for a >= b
BSub(a, b) ==
    BTrim(Limbs([i \in 1..Len(a) |->
                    (a[i] - BLimb(b, i) - BBorrowIn(a, b, i) + Base) % Base]))

\* -1, 0, 1 as a < b, a = b, a > b
BCmp(a, b) ==
    IF Len(a) < Len(b) THEN -1
    ELSE IF Len(a) > Len(b) THEN 1
    ELSE IF a = b THEN 0
    ELSE LET i == CHOOSE i \in 1..Len(a) :
                      a[i] # b[i] /\ \A j \in (i + 1)..Len(a) : a[j] = b[j]
         IN  IF a[i] < b[i] THEN -1 ELSE 1

BShlLimbs(a, k) == IF a = <<>> THEN a ELSE [i \in 1..k |-> 0] \o a

\* a * d for 0 <= d < Base: the low halves of the limb products plus the
\* high halves one limb up.
BMulSmall(a, d) ==
    BAdd(BTrim(Limbs([i \in 1..Len(a) |-> (a[i] * d) % Base])),
         BShlLimbs(BTrim(Limbs([i \in 1..Len(a) |-> (a[i] * d) \div Base])), 1))

RECURSIVE SumRange(_, _, _)
SumRange(f, lo, hi) ==
    IF lo > hi THEN 0
    ELSE IF lo = hi THEN f[lo]
    ELSE LET mid == (lo + hi) \div 2
         IN  SumRange(f, lo, mid) + SumRange(f, mid + 1, hi)

\* Column k (from 0) of the schoolbook product: the low halves of the limb
\* products of weight k plus the high halves of those of weight k - 1.
BMulColumn(a, b, k) ==
    LET lo == Limbs([i \in 1..Len(a) |->
                        IF k + 2 - i \in 1..Len(b)
                        THEN (a[i] * b[k + 2 - i]) % Base ELSE 0])
        hi == Limbs([i \in 1..Len(a) |->
                        IF k + 1 - i \in 1..Len(b)
                        THEN (a[i] * b[k + 1 - i]) \div Base ELSE 0])
    IN  SumRange(lo, 1, Len(a)) + SumRange(hi, 1, Len(a))

BMul(a, b) ==
    IF a = <<>> \/ b = <<>> THEN <<>>
    ELSE LET n == Len(a) + Len(b)
             col == Limbs([k \in 1..n |-> BMulColumn(a, b, k - 1)])
         IN  BAdd(BTrim(Limbs([k \in 1..n |-> col[k] % Base])),
                  BShlLimbs(BTrim(Limbs([k \in 1..n |-> col[k] \div Base])), 1))

\* Short division of limbs hi down to lo by d (0 < d <= Base) with incoming
\* remainder r: <<quotient limbs lo..hi, remainder>>.
RECURSIVE BDivSmallRange(_, _, _, _, _)
BDivSmallRange(a, d, lo, hi, r) ==
    IF lo > hi THEN <<<<>>, r>>
    ELSE IF lo = hi THEN <<<<(r * Base + a[lo]) \div d>>, (r * Base + a[lo]) % d>>
    ELSE LET mid == (lo + hi) \div 2
             top == BDivSmallRange(a, d, mid + 1, hi, r)
         IN  IF top[2] < 0 THEN top    \* (never: settles top first)
             ELSE LET bot == BDivSmallRange(a, d, lo, mid, top[2])
                  IN  <<bot[1] \o top[1], bot[2]>>

BDivSmall(a, d) == BTrim(BDivSmallRange(a, d, 1, Len(a), 0)[1])

BModSmall(a, d) == BDivSmallRange(a, d, 1, Len(a), 0)[2]

\* a * 2^n and floor(a / 2^n)
BShl(a, n) == BShlLimbs(BMulSmall(a, 2^(n % 15)), n \div 15)

BShr(a, n) ==
    IF n \div 15 >= Len(a) THEN <<>>
    ELSE BDivSmall(SubSeq(a, n \div 15 + 1, Len(a)), 2^(n % 15))

\* a mod 2^n
BLow(a, n) ==
    IF n \div 15 >= Len(a) THEN a
    ELSE BTrim(SubSeq(a, 1, n \div 15) \o <<a[n \div 15 + 1] % 2^(n % 15)>>)

\* bit i of a (bit 0 is the least significant)
BBit(a, i) == (BLimb(a, i \div 15 + 1) \div 2^(i % 15)) % 2

BitLenSmall(x) == CHOOSE k \in 1..15 : 2^(k - 1) <= x /\ x < 2^k

BBitLen(a) ==
    IF a = <<>> THEN 0 ELSE 15 * (Len(a) - 1) + BitLenSmall(a[Len(a)])

\* The largest d in lo..hi with b * d <= r, given b * lo <= r.
RECURSIVE BDigit(_, _, _, _)
BDigit(r, b, lo, hi) ==
    IF lo = hi THEN lo
    ELSE LET mid == (lo + hi + 1) \div 2
         IN  IF BCmp(BMulSmall(b, mid), r) <= 0
             THEN BDigit(r, b, mid, hi)
             ELSE BDigit(r, b, lo, mid - 1)

\* Long division of limbs hi down to lo of a by b > 0 with incoming
\* remainder r < b: <<quotient limbs lo..hi, remainder>>.
RECURSIVE BDivModRange(_, _, _, _, _)
BDivModRange(a, b, lo, hi, r) ==
    IF lo > hi THEN <<<<>>, r>>
    ELSE IF lo = hi
    THEN LET t == BTrim(<<a[lo]>> \o r)
             d == BDigit(t, b, 0, Base - 1)
         IN  <<<<d>>, BSub(t, BMulSmall(b, d))>>
    ELSE LET mid == (lo + hi) \div 2
             top == BDivModRange(a, b, mid + 1, hi, r)
         IN  IF Len(top[2]) < 0 THEN top    \* (never: settles top first)
             ELSE LET bot == BDivModRange(a, b, lo, mid, top[2])
                  IN  <<bot[1] \o top[1], bot[2]>>

\* <<a div b, a mod b>> for b > 0
BDivMod(a, b) ==
    LET r == BDivModRange(a, b, 1, Len(a), <<>>) IN <<BTrim(r[1]), r[2]>>

-----------------------------------------------------------------------------
(***************************************************************************)
(* IEEE-754 binary floating point, round-to-nearest-even: the arithmetic   *)
(* of Rust's f32 and f64.  A finite value is (-1)^s * m * 2^q with m below *)
(* 2^p; a normal value has exactly p significant bits, a subnormal one has *)
(* q = QMin, and zero has m = <<>> (and keeps its sign).                   *)
(***************************************************************************)

F32 == [name |-> "f32", p |-> 24, emax |-> 127, bits |-> 32]
F64 == [name |-> "f64", p |-> 53, emax |-> 1023, bits |-> 64]

\* The exponent of the least significant bit of the subnormal numbers.
QMin(fmt) == 2 - fmt.emax - fmt.p

Zero(s) == [cls |-> "fin", s |-> s, m |-> <<>>, q |-> 0]
Inf(s) == [cls |-> "inf", s |-> s, m |-> <<>>, q |-> 0]

\* A NaN keeps its sign and its fraction field m (never zero).  QuietBit is
\* the top bit of the fraction field.
QuietBit(fmt) == BShl(<<1>>, fmt.p - 2)
NaNOf(fmt, s, payload) ==
    [cls |-> "nan", s |-> s, m |-> BAdd(QuietBit(fmt), payload), q |-> 0]
SignalingNaN(s, payload) == [cls |-> "nan", s |-> s, m |-> payload, q |-> 0]

\* The language leaves the sign and the payload of a NaN that an operation
\* returns unspecified, and the builds differ (operands known to the
\* compiler or not, debug or release): the result has either sign, and its
\* fraction field is the quiet bit alone or that of a NaN operand, quieted
\* or as it is.  NaNResults is the set of these, for the operands ops.
Quiet(fmt, x) ==
    IF BBit(x.m, fmt.p - 2) = 1 THEN x
    ELSE [x EXCEPT !.m = BAdd(x.m, QuietBit(fmt))]
NaNResults(fmt, ops) ==
    LET nans == {o \in ops : o.cls = "nan"}
        fields == {QuietBit(fmt)} \cup {o.m : o \in nans}
                  \cup {Quiet(fmt, o).m : o \in nans}
    IN  {[cls |-> "nan", s |-> sg, m |-> f, q |-> 0] :
            sg \in {0, 1}, f \in fields}

\* What Sum, Product and Quotient give when the result is a NaN.
NaNResult == [cls |-> "nan", s |-> 0, m |-> <<>>, q |-> 0]

IsZero(x) == x.cls = "fin" /\ x.m = <<>>
IsFinite(x) == x.cls = "fin"

\* m * 2^q as a value of the format, once m has at most p bits.
Pack(fmt, s, m, q) ==
    IF m = <<>> THEN Zero(s)
    ELSE IF q + BBitLen(m) - 1 > fmt.emax THEN Inf(s)
    ELSE [cls |-> "fin", s |-> s, m |-> m, q |-> q]

\* (-1)^s * (M * 2^E + a positive fraction of 2^E when sticky) rounded to
\* a value of the format: to the nearest one, ties to even (the mode of the
\* arithmetic operations), or to the neighbour toward or away from zero.
\* With sticky, M has more than p bits.
RoundTo(fmt, s, M, E, sticky, mode) ==
    IF M = <<>> THEN Zero(s)
    ELSE LET q0 == BBitLen(M) + E - fmt.p
             q == IF q0 < QMin(fmt) THEN QMin(fmt) ELSE q0
             k == q - E
         IN  IF k <= 0 THEN Pack(fmt, s, BShl(M, -k), q)
             ELSE LET kept == BShr(M, k)
                      rest == sticky \/ BLow(M, k - 1) # <<>>
                      some == rest \/ BBit(M, k - 1) = 1
                      up == CASE mode = "nearest" ->
                                   BBit(M, k - 1) = 1
                                   /\ (rest \/ BBit(kept, 0) = 1)
                              [] mode = "away" -> some
                              [] mode = "zero" -> FALSE
                      m1 == IF up THEN BAdd(kept, <<1>>) ELSE kept
                  IN  IF BBitLen(m1) > fmt.p
                      THEN Pack(fmt, s, BShr(m1, 1), q + 1)
                      ELSE Pack(fmt, s, m1, q)

Round(fmt, s, M, E, sticky) == RoundTo(fmt, s, M, E, sticky, "nearest")

\* The value n * 2^e (n a natural below 2^31), negated when s = 1.
Dyadic(fmt, s, n, e) == Round(fmt, s, BFromNat(n), e, FALSE)

\* T::from_usize(n)
FromUsize(fmt, n) == Dyadic(fmt, 0, n, 0)

\* -x: the sign bit flipped, of a NaN too
FNeg(x) == [x EXCEPT !.s = 1 - x.s]

\* -1, 0, 1 as |x| < |y|, |x| = |y|, |x| > |y|, for finite x and y
CmpMag(x, y) ==
    IF x.m = <<>> \/ y.m = <<>>
    THEN (IF x.m = <<>> THEN 0 ELSE 1) - (IF y.m = <<>> THEN 0 ELSE 1)
    ELSE LET tx == BBitLen(x.m) + x.q
             ty == BBitLen(y.m) + y.q
         IN  IF tx < ty THEN -1
             ELSE IF tx > ty THEN 1
             ELSE IF x.q >= y.q THEN BCmp(BShl(x.m, x.q - y.q), y.m)
             ELSE BCmp(x.m, BShl(y.m, y.q - x.q))

\* -1, 0, 1 as x < y, x = y, x > y, for x and y that are not NaN
FCmp(x, y) ==
    LET key(v) == IF v.cls = "inf" THEN 2 ELSE IF v.m = <<>> THEN 0 ELSE 1
        sx == IF IsZero(x) THEN 0 ELSE 1 - 2 * x.s
        sy == IF IsZero(y) THEN 0 ELSE 1 - 2 * y.s
    IN  IF sx # sy THEN (IF sx < sy THEN -1 ELSE 1)
        ELSE IF sx = 0 THEN 0
        ELSE IF key(x) # key(y) THEN sx * (IF key(x) < key(y) THEN -1 ELSE 1)
        ELSE IF x.cls = "inf" THEN 0
        ELSE sx * CmpMag(x, y)

\* The comparison operators of f32 / f64: every comparison with NaN is false.
FLt(x, y) == x.cls # "nan" /\ y.cls # "nan" /\ FCmp(x, y) < 0
FLe(x, y) == x.cls # "nan" /\ y.cls # "nan" /\ FCmp(x, y) <= 0
FGt(x, y) == FLt(y, x)
FGe(x, y) == FLe(y, x)
FEq(x, y) == x.cls # "nan" /\ y.cls # "nan" /\ FCmp(x, y) = 0

\* x + y for finite non-zero x, y with |x| >= |y|
AddOrdered(fmt, x, y) ==
    IF x.q - y.q > fmt.p + 3
    THEN \* y is below a quarter of the last place of x: it only decides
         \* the direction of rounding
         IF x.s = y.s THEN Round(fmt, x.s, BShl(x.m, 3), x.q - 3, TRUE)
         ELSE Round(fmt, x.s, BSub(BShl(x.m, 3), <<1>>), x.q - 3, TRUE)
    ELSE LET e == IF x.q < y.q THEN x.q ELSE y.q
             mx == BShl(x.m, x.q - e)
             my == BShl(y.m, y.q - e)
         IN  IF x.s = y.s THEN Round(fmt, x.s, BAdd(mx, my), e, FALSE)
             ELSE IF mx = my THEN Zero(0)
             ELSE Round(fmt, x.s, BSub(mx, my), e, FALSE)

\* The value of x + y, rounded; NaNResult when it is a NaN.
Sum(fmt, x, y) ==
    IF x.cls = "nan" \/ y.cls = "nan" THEN NaNResult
    ELSE IF x.cls = "inf"
    THEN (IF y.cls = "inf" /\ x.s # y.s THEN NaNResult ELSE x)
    ELSE IF y.cls = "inf" THEN y
    ELSE IF IsZero(x)
    THEN (IF IsZero(y) THEN Zero(IF x.s = 1 /\ y.s = 1 THEN 1 ELSE 0) ELSE y)
    ELSE IF IsZero(y) THEN x
    ELSE IF CmpMag(x, y) >= 0 THEN AddOrdered(fmt, x, y)
    ELSE AddOrdered(fmt, y, x)

\* The value of x * y, rounded; NaNResult when it is a NaN.
Product(fmt, x, y) ==
    LET s == (x.s + y.s) % 2
    IN  IF x.cls = "nan" \/ y.cls = "nan" THEN NaNResult
        ELSE IF x.cls = "inf" \/ y.cls = "inf"
        THEN (IF IsZero(x) \/ IsZero(y) THEN NaNResult ELSE Inf(s))
        ELSE Round(fmt, s, BMul(x.m, y.m), x.q + y.q, FALSE)

\* The value of x / y, rounded; NaNResult when it is a NaN.
Quotient(fmt, x, y) ==
    LET s == (x.s + y.s) % 2
    IN  IF x.cls = "nan" \/ y.cls = "nan" THEN NaNResult
        ELSE IF x.cls = "inf"
        THEN (IF y.cls = "inf" THEN NaNResult ELSE Inf(s))
        ELSE IF y.cls = "inf" THEN Zero(s)
        ELSE IF IsZero(y)
        THEN (IF IsZero(x) THEN NaNResult ELSE Inf(s))
        ELSE IF IsZero(x) THEN Zero(s)
        ELSE LET bx == BBitLen(x.m)
                 by == BBitLen(y.m)
                 sh == fmt.p + 2 + (IF by > bx THEN by - bx ELSE 0)
                 qr == BDivMod(BShl(x.m, sh), y.m)
             IN  Round(fmt, s, qr[1], x.q - y.q - sh, qr[2] # <<>>)

\* The results an operation on x and y may return: its value r, or the
\* NaNs it may return when the value is a NaN.
Results(fmt, r, x, y) ==
    IF r.cls = "nan" THEN NaNResults(fmt, {x, y}) ELSE {r}

\* x + y, x - y, x * y, x / y: the results the operation may return
FAdd(fmt, x, y) == Results(fmt, Sum(fmt, x, y), x, y)
FSub(fmt, x, y) == Results(fmt, Sum(fmt, x, FNeg(y)), x, y)
FMul(fmt, x, y) == Results(fmt, Product(fmt, x, y), x, y)
FDiv(fmt, x, y) == Results(fmt, Quotient(fmt, x, y), x, y)

\* The bit pattern of x (to_bits): sign, biased exponent, fraction.  A NaN
\* has the exponent field all ones and its own sign and fraction field.
ToBits(fmt, x) ==
    LET p == fmt.p
        signBit == IF x.s = 1 THEN BShl(<<1>>, fmt.bits - 1) ELSE <<>>
        expAll == BShl(BFromNat(2 * fmt.emax + 1), p - 1)
    IN  IF x.cls = "nan" THEN BAdd(signBit, BAdd(expAll, x.m))
        ELSE IF x.cls = "inf" THEN BAdd(signBit, expAll)
        ELSE IF BBitLen(x.m) < p THEN BAdd(signBit, x.m)
        ELSE BAdd(signBit,
                  BAdd(BShl(BFromNat(x.q + p - 1 + fmt.emax), p - 1),
                       BLow(x.m, p - 1)))

-----------------------------------------------------------------------------
(***************************************************************************)
(* exp and ln_1p of the standard library.  They call the platform's libm,  *)
(* whose results are within one unit in the last place of the exact value  *)
(* but not always the nearest one, and the standard library leaves their   *)
(* precision unspecified.  Exp and Ln1p are therefore the SET of results a *)
(* call may return: the exact value is computed in fixed point with        *)
(* FracBits fractional bits, and both neighbours of it in the format are   *)
(* results.  A result that is exact, zero or infinite is the only one; a   *)
(* NaN result is any of NaNResults.                                        *)
(***************************************************************************)

\* The values of the format a libm result (-1)^s * (M * 2^E + a fraction)
\* may be.
LibmRound(fmt, s, M, E) ==
    LET n == RoundTo(fmt, s, M, E, TRUE, "nearest")
    IN  IF n.cls = "inf" \/ IsZero(n) THEN {n}
        ELSE {RoundTo(fmt, s, M, E, TRUE, "zero"),
              RoundTo(fmt, s, M, E, TRUE, "away")}

FracBits == 11 * 15

OneFix == BShl(<<1>>, FracBits)

\* floor(ln(2) * 2^FracBits)
Ln2Fix ==
    <<25806, 15568, 22432, 29430, 12295, 3790, 24143, 30618, 31289, 1533, 22713>>

\* floor(ln(1 + j/16) * 2^FracBits) for j = 0..15 (entry j + 1)
LnTable ==
    <<<<>>,
      <<9838, 20947, 19561, 6520, 28395, 4834, 1523, 5427, 278, 17944, 1986>>,
      <<2050, 21423, 11996, 7701, 17405, 8191, 20308, 11870, 17758, 16859, 3859>>,
      <<27327, 22300, 32362, 18293, 7300, 4176, 1854, 31353, 10724, 6200, 5631>>,
      <<20098, 22906, 19171, 29508, 19454, 16631, 16989, 17461, 26278, 31715, 7311>>,
      <<5255, 8001, 8067, 2946, 2103, 32087, 29592, 896, 21971, 23723, 8910>>,
      <<6145, 13129, 11193, 19728, 6627, 13179, 8559, 12447, 3631, 3010, 10435>>,
      <<14804, 30787, 21870, 15845, 22175, 17727, 7241, 423, 24040, 22518, 11891>>,
      <<30312, 18495, 830, 18566, 31234, 22374, 22225, 4860, 24524, 9196, 13286>>,
      <<7428, 13045, 5575, 26249, 6141, 495, 1211, 2155, 19789, 30663, 14623>>,
      <<26707, 9285, 31410, 22364, 6375, 15121, 27536, 15148, 22403, 3935, 15909>>,
      <<32363, 7150, 12827, 26267, 15871, 30566, 9765, 16731, 9514, 26056, 17145>>,
      <<749, 5074, 29669, 13810, 15932, 13502, 31510, 26654, 28736, 16060, 18337>>,
      <<26224, 23556, 3077, 19950, 22125, 5182, 28004, 24335, 20240, 11878, 19487>>,
      <<17642, 8634, 20002, 15306, 17921, 6238, 6447, 22322, 18034, 8144, 20598>>,
      <<27977, 9347, 24424, 11943, 23343, 5602, 7666, 21879, 23493, 23116, 21672>>>>

\* a * b and a / d in fixed point (truncated)
MulFix(a, b) == BShr(BMul(a, b), FracBits)

\* 1 + r/n * (1 + r/(n+1) * (... (1 + r/last))): the Taylor sum of e^r
RECURSIVE ExpHorner(_, _, _)
ExpHorner(r, n, last) ==
    IF n > last THEN OneFix
    ELSE LET h == ExpHorner(r, n + 1, last)
         IN  IF h = <<>> THEN h    \* (never: settles h first)
             ELSE BAdd(OneFix, BDivSmall(MulFix(r, h), n))

RECURSIVE SquareTimes(_, _)
SquareTimes(v, n) ==
    IF n = 0 \/ v = <<>> THEN v ELSE SquareTimes(MulFix(v, v), n - 1)

\* e^x for finite non-zero x with |x| <= 2^11: x = k ln 2 + r with
\* 0 <= r <= ln 2, e^r = (e^(r/256))^256, and the result is 2^k e^r.
ExpFinite(fmt, x) ==
    LET ax == IF x.q + FracBits >= 0 THEN BShl(x.m, x.q + FracBits)
              ELSE BShr(x.m, -(x.q + FracBits))
        qr == BDivMod(ax, Ln2Fix)
        k == IF x.s = 0 THEN BToNat(qr[1]) ELSE -BToNat(qr[1]) - 1
        r == IF x.s = 0 THEN qr[2] ELSE BSub(Ln2Fix, qr[2])
        er == SquareTimes(ExpHorner(BShr(r, 8), 1, 16), 8)
    IN  LibmRound(fmt, 0, er, k - FracBits)

\* f32::exp / f64::exp: the results x.exp() may return
Exp(fmt, x) ==
    IF x.cls = "nan" THEN NaNResults(fmt, {x})
    ELSE IF x.cls = "inf" THEN {IF x.s = 0 THEN Inf(0) ELSE Zero(0)}
    ELSE IF IsZero(x) THEN {Dyadic(fmt, 0, 1, 0)}
    ELSE IF BBitLen(x.m) + x.q > 11
    THEN {IF x.s = 0 THEN Inf(0) ELSE Zero(0)}
    ELSE ExpFinite(fmt, x)

\* 1/(2n+1) + u * (1/(2n+3) + u * (...)): atanh(t)/t in u = t^2
RECURSIVE AtanhHorner(_, _, _)
AtanhHorner(u, n, last) ==
    IF n > last THEN <<>>
    ELSE LET g == AtanhHorner(u, n + 1, last)
         IN  IF Len(g) < 0 THEN g    \* (never: settles g first)
             ELSE BAdd(BDivSmall(OneFix, 2 * n + 1), MulFix(u, g))

\* ln(1 + y) for finite y > -1 with |y| >= 2^-(p+1): 1 + y = 2^k * m with
\* 1 <= m < 2, m = c * (1 + w) with c = 1 + j/16, and ln(1 + w) = 2 atanh(t)
\* for t = (m - c)/(m + c).  For y < 0, k is negative and so is the result.
Ln1pFinite(fmt, y) ==
    LET ay == BShl(y.m, y.q + FracBits)
        z == IF y.s = 0 THEN BAdd(OneFix, ay) ELSE BSub(OneFix, ay)
        k == BBitLen(z) - 1 - FracBits
        m == IF k >= 0 THEN BShr(z, k) ELSE BShl(z, -k)
        j == BToNat(BShr(m, FracBits - 4)) - 16
        c == BShl(BFromNat(16 + j), FracBits - 4)
        t == BDivMod(BShl(BSub(m, c), FracBits), BAdd(m, c))[1]
        at == MulFix(t, AtanhHorner(MulFix(t, t), 0, 17))
        lnm == BAdd(LnTable[j + 1], BMulSmall(at, 2))
    IN  IF k >= 0
        THEN LibmRound(fmt, 0, BAdd(BMul(Ln2Fix, BFromNat(k)), lnm),
                       -FracBits)
        ELSE LibmRound(fmt, 1, BSub(BMul(Ln2Fix, BFromNat(-k)), lnm),
                       -FracBits)

\* f32::ln_1p / f64::ln_1p: the results y.ln_1p() may return.  Below -1 the
\* result is a NaN, at -1 it is -inf; for |y| below 2^-(p+1) it is y itself,
\* the nearest value to ln(1 + y) = y - y^2/2 + ...
Ln1p(fmt, y) ==
    IF y.cls = "nan" THEN NaNResults(fmt, {y})
    ELSE IF y.cls = "inf" THEN (IF y.s = 0 THEN {y} ELSE NaNResults(fmt, {}))
    ELSE IF IsZero(y) THEN {y}
    ELSE IF y.s = 1 /\ FCmp(y, Dyadic(fmt, 1, 1, 0)) < 0
    THEN NaNResults(fmt, {})
    ELSE IF y.s = 1 /\ FCmp(y, Dyadic(fmt, 1, 1, 0)) = 0 THEN {Inf(1)}
    ELSE IF BBitLen(y.m) + y.q <= -(fmt.p + 1) THEN {y}
    ELSE Ln1pFinite(fmt, y)

-----------------------------------------------------------------------------
(***************************************************************************)
(* error/mod.rs                                                            *)
(***************************************************************************)

\* Bounds of the error-taxonomy model.
MaxFailures == 2
Msgs == {"", "a: b"}

\* enum FailedError, in declaration order.
FailedError ==
    <<"FitFailed", "PredictFailed", "TransformFailed",
      "FindFailed", "DecompositionFailed", "SolutionFailed">>

Kinds == {FailedError[i] : i \in 1..Len(FailedError)}

\* The explicit discriminant of the first variant (`FitFailed = 1`).
FitFailedDiscriminant == 1

DeclIndex(k) == CHOOSE i \in 1..Len(FailedError) : FailedError[i] = k

\* Rust numbers the variants after an explicit discriminant consecutively.
\* Variant: the variants numbered from 0.
Discriminant_from0(k) == DeclIndex(k) - 1
Discriminant(k) == FitFailedDiscriminant + (DeclIndex(k) - 1)

\* `as u8`
AsU8(n) == n % 256

\* impl PartialEq for FailedError
FailedErrorEq(a, b) == AsU8(Discriminant(a)) = AsU8(Discriminant(b))

\* impl PartialEq for Failure
\* Variant: equality on the kind alone.
FailureEq_kindOnly(a, b) == FailedErrorEq(a.err, b.err)
FailureEq(a, b) == FailedErrorEq(a.err, b.err) /\ a.msg = b.msg

\* Failure::error
error(f) == f.err

\* Failure::fit / predict / transform / because
fit(msg) == [err |-> "FitFailed", msg |-> msg]
predict(msg) == [err |-> "PredictFailed", msg |-> msg]
\* Variant: transform building the kind of predict.
transform_asPredict(msg) == [err |-> "PredictFailed", msg |-> msg]
transform(msg) == [err |-> "TransformFailed", msg |-> msg]
because(err, msg) == [err |-> err, msg |-> msg]

\* impl fmt::Display for FailedError
DisplayFailedError(k) ==
    CASE k = "FitFailed" -> "Fit failed"
      [] k = "PredictFailed" -> "Predict failed"
      [] k = "TransformFailed" -> "Transform failed"
      [] k = "FindFailed" -> "Find failed"
      [] k = "DecompositionFailed" -> "Decomposition failed"
      [] k = "SolutionFailed" -> "Can not find solution"

\* impl fmt::Display for Failure
\* Variant: the separator without its space.
DisplayFailure_noSpace(f) == DisplayFailedError(f.err) \o ":" \o f.msg
DisplayFailure(f) == DisplayFailedError(f.err) \o ": " \o f.msg


Construct(ctor, f, given) ==
    /\ Len(failures) < MaxFailures
    /\ failures' = Append(failures, f)
    /\ built' = Append(built, given)
    /\ fres' = [op |-> ctor, kind |-> given.err, msg |-> given.msg,
                ret |-> Len(failures) + 1]
    /\ UNCHANGED <<vvars, rvars>>

Fit ==
    \E m \in Msgs : Construct("fit", fit(m), [err |-> "FitFailed", msg |-> m])

Predict ==
    \E m \in Msgs :
        Construct("predict", predict(m), [err |-> "PredictFailed", msg |-> m])

Transform ==
    \E m \in Msgs :
        Construct("transform", transform(m),
                  [err |-> "TransformFailed", msg |-> m])

Because ==
    \E k \in Kinds, m \in Msgs :
        Construct("because", because(k, m), [err |-> k, msg |-> m])

\* f.error()
ErrorCall ==
    \E i \in 1..Len(failures) :
        /\ fres' = [op |-> "error", a |-> i, out |-> error(failures[i])]
        /\ UNCHANGED <<failures, built, vvars, rvars>>

\* a == b on two Failures
EqCall ==
    \E i \in 1..Len(failures), j \in 1..Len(failures) :
        /\ fres' = [op |-> "eq", a |-> i, b |-> j,
                    out |-> FailureEq(failures[i], failures[j])]
        /\ UNCHANGED <<failures, built, vvars, rvars>>

\* k1 == k2 on two FailedError kinds
KindEqCall ==
    \E k1 \in Kinds, k2 \in Kinds :
        /\ fres' = [op |-> "kind_eq", a |-> k1, b |-> k2,
                    ua |-> AsU8(Discriminant(k1)), ub |-> AsU8(Discriminant(k2)),
                    out |-> FailedErrorEq(k1, k2)]
        /\ UNCHANGED <<failures, built, vvars, rvars>>

\* format!("{}", f)
DisplayCall ==
    \E i \in 1..Len(failures) :
        /\ fres' = [op |-> "display", a |-> i, out |-> DisplayFailure(failures[i])]
        /\ UNCHANGED <<failures, built, vvars, rvars>>

FNext ==
    \/ Fit
    \/ Predict
    \/ Transform
    \/ Because
    \/ ErrorCall
    \/ EqCall
    \/ KindEqCall
    \/ DisplayCall

-----------------------------------------------------------------------------
(***************************************************************************)
(* linalg/mod.rs: trait BaseVector<T: Real>                                *)
(*                                                                         *)
(* The required methods (get, set, len, zeros, to_vec, clone and the       *)
(* element-wise *_mut operations) belong to the implementing container;    *)
(* they are modelled as the trait documents them, on a vector stored as a  *)
(* sequence of T.  The provided methods are modelled from their bodies.    *)
(* Index i of the source is position i + 1 of the sequence.                *)
(***************************************************************************)

\* Bounds of the vector model.
MaxLen == 2

Formats == {F32, F64}

\* The element values vectors are built from.  Both pairs have squares that
\* are not representable, so that sums of squares round.
Elems32 == {Dyadic(F32, 0, 5798, 0), Dyadic(F32, 0, 5799, 0)}
Elems64 == {Dyadic(F64, 0, 134332689, 0), Dyadic(F64, 0, 134332690, 0)}

Elems(fmt) == IF fmt = F32 THEN Elems32 ELSE Elems64

Arrays(fmt) ==
    UNION {[1..n -> Elems(fmt)] : n \in 0..MaxLen}

\* --- required methods, as documented ---
get(v, i) == v[i + 1]
set(v, i, x) == [v EXCEPT ![i + 1] = x]
len(v) == Len(v)
zeros(n) == [i \in 1..n |-> Zero(0)]
to_vec(v) == v
clone(v) == v

\* The sequences whose element i is one of the set S[i].
RECURSIVE SeqChoices(_)
SeqChoices(S) ==
    IF S = <<>> THEN {<<>>}
    ELSE {<<x>> \o t : x \in S[1], t \in SeqChoices(Tail(S))}

\* The in-place operations: the contents v may have afterwards.
add_mut(fmt, v, other) ==
    SeqChoices([i \in 1..Len(v) |-> FAdd(fmt, v[i], other[i])])
sub_mut(fmt, v, other) ==
    SeqChoices([i \in 1..Len(v) |-> FSub(fmt, v[i], other[i])])
mul_mut(fmt, v, other) ==
    SeqChoices([i \in 1..Len(v) |-> FMul(fmt, v[i], other[i])])
div_mut(fmt, v, other) ==
    SeqChoices([i \in 1..Len(v) |-> FDiv(fmt, v[i], other[i])])

\* --- provided methods ---

\* fn is_empty(&self) -> bool
is_empty(v) == len(v) = 0

\* fn from_array(arr: &[T]) -> Self: the loop over arr.iter().enumerate()
\* from index i on.
RECURSIVE from_array_loop(_, _, _)
from_array_loop(v, arr, i) ==
    IF i >= Len(arr) THEN v
    ELSE from_array_loop(set(v, i, arr[i + 1]), arr, i + 1)

\* Variant: the loop starting at index 1.
from_array_skipFirst(arr) == from_array_loop(zeros(Len(arr)), arr, 1)
from_array(arr) == from_array_loop(zeros(Len(arr)), arr, 0)

\* The element-wise operations on the heap h: `let mut r = self.clone();
\* r.op_mut(other); r`.  A result is the new heap and the identity of r;
\* the operation gives the set of results the call may have.
CloneCell(h, self) == [h |-> Append(h, clone(h[self])), r |-> Len(h) + 1]

\* Variant: add_mut applied to the receiver itself, which is returned.
add_inPlace(fmt, h, self, other) ==
    {[h |-> [h EXCEPT ![self] = w], r |-> self] :
        w \in add_mut(fmt, h[self], h[other])}
add(fmt, h, self, other) ==
    LET c == CloneCell(h, self)
    IN  {[h |-> [c.h EXCEPT ![c.r] = w], r |-> c.r] :
            w \in add_mut(fmt, c.h[c.r], c.h[other])}

sub(fmt, h, self, other) ==
    LET c == CloneCell(h, self)
    IN  {[h |-> [c.h EXCEPT ![c.r] = w], r |-> c.r] :
            w \in sub_mut(fmt, c.h[c.r], c.h[other])}

mul(fmt, h, self, other) ==
    LET c == CloneCell(h, self)
    IN  {[h |-> [c.h EXCEPT ![c.r] = w], r |-> c.r] :
            w \in mul_mut(fmt, c.h[c.r], c.h[other])}

div(fmt, h, self, other) ==
    LET c == CloneCell(h, self)
    IN  {[h |-> [c.h EXCEPT ![c.r] = w], r |-> c.r] :
            w \in div_mut(fmt, c.h[c.r], c.h[other])}

\* fn var(&self) -> T: from the accumulators <<mu, sum>> that indices
\* 0..i-1 may have left (accs), those the whole loop may leave.
RECURSIVE var_loop(_, _, _, _)
var_loop(fmt, v, i, accs) ==
    IF i >= len(v) THEN accs
    ELSE LET xi == get(v, i)
             step(a) ==
                 {<<mu, sum>> :
                     mu \in FAdd(fmt, a[1], xi),
                     sum \in UNION {FAdd(fmt, a[2], sq) :
                                       sq \in FMul(fmt, xi, xi)}}
         IN  var_loop(fmt, v, i + 1, UNION {step(a) : a \in accs})

\* sum / div - mu * mu
var_result(fmt, mu, sum, dv) ==
    UNION {UNION {FSub(fmt, qt, sq) : sq \in FMul(fmt, mu, mu)} :
              qt \in FDiv(fmt, sum, dv)}

\* Variant: the sum of the elements not divided by n.
var_meanNotDivided(fmt, v) ==
    LET dv == FromUsize(fmt, len(v))
    IN  UNION {var_result(fmt, acc[1], acc[2], dv) :
                  acc \in var_loop(fmt, v, 0, {<<Zero(0), Zero(0)>>})}
\* The results v.var() may return.
var(fmt, v) ==
    LET n == len(v)
        dv == FromUsize(fmt, n)
    IN  UNION {UNION {var_result(fmt, mu, acc[2], dv) :
                         mu \in FDiv(fmt, acc[1], dv)} :
                  acc \in var_loop(fmt, v, 0, {<<Zero(0), Zero(0)>>})}

\* --- the state machine: two vectors are built, then one operation is ---
\* --- called on them; a vector returned by add/sub/mul/div may then be ---
\* --- written to; var() may be called on a vector once it is built    ---

NoPure == [op |-> "none"]

Ids == 1..Len(heap)

Built == Len(heap) = 2 /\ vres.op = "from_array"

\* let v = V::from_array(&arr);
FromArray ==
    \E arr \in Arrays(vfmt) :
        /\ Len(heap) < 2
        /\ heap' = Append(heap, from_array(arr))
        /\ vres' = [op |-> "from_array", arg |-> arr, ret |-> Len(heap) + 1]
        /\ UNCHANGED <<vfmt, pure, fvars, rvars>>

\* let w = V::from_array(&v.to_vec());
RoundTrip ==
    \E v \in Ids :
        /\ Built
        /\ heap' = Append(heap, from_array(to_vec(heap[v])))
        /\ vres' = [op |-> "round_trip", recv |-> v, ret |-> Len(heap) + 1]
        /\ UNCHANGED <<vfmt, pure, fvars, rvars>>

\* v.is_empty()
IsEmptyCall ==
    \E v \in Ids :
        /\ Built
        /\ vres' = [op |-> "is_empty", recv |-> v, out |-> is_empty(heap[v])]
        /\ UNCHANGED <<vfmt, heap, pure, fvars, rvars>>

PureCall(name, res, a, b) ==
    /\ heap' = res.h
    /\ vres' = [op |-> name, recv |-> a, arg |-> b, ret |-> res.r]
    /\ pure' = [op |-> name, recv |-> a, arg |-> b, ret |-> res.r,
                recvWas |-> heap[a], argWas |-> heap[b], out |-> res.h[res.r]]
    /\ UNCHANGED <<vfmt, fvars, rvars>>

\* Receiver and argument have the same length; they may be the same vector.
Operands == {ab \in Ids \X Ids : Len(heap[ab[1]]) = Len(heap[ab[2]])}

\* let r = a.add(&b);
Add == Built /\ \E ab \in Operands :
          \E res \in add(vfmt, heap, ab[1], ab[2]) :
              PureCall("add", res, ab[1], ab[2])
\* let r = a.sub(&b);
Sub == Built /\ \E ab \in Operands :
          \E res \in sub(vfmt, heap, ab[1], ab[2]) :
              PureCall("sub", res, ab[1], ab[2])
\* let r = a.mul(&b);
Mul == Built /\ \E ab \in Operands :
          \E res \in mul(vfmt, heap, ab[1], ab[2]) :
              PureCall("mul", res, ab[1], ab[2])
\* let r = a.div(&b);
Div == Built /\ \E ab \in Operands :
          \E res \in div(vfmt, heap, ab[1], ab[2]) :
              PureCall("div", res, ab[1], ab[2])

\* r.set(i, x) on the vector a pure operation has just returned
SetReturned ==
    /\ pure.op # "none" /\ vres.op = pure.op
    /\ \E i \in 0..(Len(heap[pure.ret]) - 1), x \in Elems(vfmt) :
          /\ heap' = [heap EXCEPT ![pure.ret] = set(heap[pure.ret], i, x)]
          /\ vres' = [op |-> "set", recv |-> pure.ret, i |-> i, x |-> x]
    /\ UNCHANGED <<vfmt, pure, fvars, rvars>>

\* v.var(), on a vector that has just been constructed
Var ==
    \E v \in Ids :
        /\ vres.op = "from_array"
        /\ \E out \in var(vfmt, heap[v]) :
              vres' = [op |-> "var", recv |-> v, out |-> out]
        /\ UNCHANGED <<vfmt, heap, pure, fvars, rvars>>

VNext ==
    \/ FromArray
    \/ RoundTrip
    \/ IsEmptyCall
    \/ Add
    \/ Sub
    \/ Mul
    \/ Div
    \/ SetReturned
    \/ Var

-----------------------------------------------------------------------------
(***************************************************************************)
(* numbers.rs: impl Real for f64 / impl Real for f32.  The two impls have  *)
(* the same bodies; fmt selects the type.                                  *)
(***************************************************************************)

\* The thresholds written in the source.
Ln1peThreshold == 15
SigmoidThreshold == 40

One(fmt) == Dyadic(fmt, 0, 1, 0)

\* fn half() -> Self
half(fmt) == Dyadic(fmt, 0, 1, -1)

\* fn ln_1pe(self) -> Self: the results the call may return
ln_1pe(fmt, x) ==
    IF FGt(x, Dyadic(fmt, 0, Ln1peThreshold, 0)) THEN {x}
    ELSE UNION {Ln1p(fmt, e) : e \in Exp(fmt, x)}

\* 1. / (1. + exp(-self)): one result for each result of exp
SigmoidFormula(fmt, x) ==
    UNION {UNION {FDiv(fmt, One(fmt), d) : d \in FAdd(fmt, One(fmt), e)} :
              e \in Exp(fmt, FNeg(x))}

\* fn sigmoid(self) -> Self: the results the call may return
\* Variant: the thresholds compared with <= and >=.
sigmoid_inclusive(fmt, x) ==
    IF FLe(x, Dyadic(fmt, 1, SigmoidThreshold, 0)) THEN {Zero(0)}
    ELSE IF FGe(x, Dyadic(fmt, 0, SigmoidThreshold, 0)) THEN {One(fmt)}
    ELSE SigmoidFormula(fmt, x)
sigmoid(fmt, x) ==
    IF FLt(x, Dyadic(fmt, 1, SigmoidThreshold, 0)) THEN {Zero(0)}
    ELSE IF FGt(x, Dyadic(fmt, 0, SigmoidThreshold, 0)) THEN {One(fmt)}
    ELSE SigmoidFormula(fmt, x)

\* `as u32` on a u64 or u32: the low 32 bits
AsU32(b) == BLow(b, 32)

\* `self as f32`
AsF32(x) ==
    IF x.cls = "fin" THEN Round(F32, x.s, x.m, x.q, FALSE)
    ELSE IF x.cls = "nan" THEN Quiet(F32, [x EXCEPT !.m = BShr(@, 29)])
    ELSE x

\* fn to_f32_bits(self) -> u32
\* Variant: the value converted to f32 before its bits are taken.
to_f32_bits_viaCast(fmt, x) == ToBits(F32, AsF32(x))
to_f32_bits(fmt, x) == AsU32(ToBits(fmt, x))

\* --- the inputs of the calls ---

\* Bound of the input grids: the grid points are multiples of a step, up to
\* MaxGrid steps either side.
MaxGrid == 11

\* The neighbours of a finite non-zero x in the format.
StepMag(fmt, x, up) ==
    IF up
    THEN LET m1 == BAdd(x.m, <<1>>)
         IN  IF BBitLen(m1) > fmt.p THEN Pack(fmt, x.s, BShr(m1, 1), x.q + 1)
             ELSE Pack(fmt, x.s, m1, x.q)
    ELSE IF BBitLen(BSub(x.m, <<1>>)) < fmt.p /\ x.q > QMin(fmt)
         THEN Pack(fmt, x.s, BSub(BShl(x.m, 1), <<1>>), x.q - 1)
         ELSE Pack(fmt, x.s, BSub(x.m, <<1>>), x.q)

NextAbove(fmt, x) == StepMag(fmt, x, x.s = 0)
NextBelow(fmt, x) == StepMag(fmt, x, x.s = 1)

MaxFinite(fmt, s) ==
    [cls |-> "fin", s |-> s, m |-> BSub(BShl(<<1>>, fmt.p), <<1>>),
     q |-> fmt.emax - fmt.p + 1]
MinSubnormal(fmt, s) == [cls |-> "fin", s |-> s, m |-> <<1>>, q |-> QMin(fmt)]

Around(fmt, x) == {NextBelow(fmt, x), x, NextAbove(fmt, x)}

\* sigmoid: the multiples of 4 up to 4 * MaxGrid with both signs (zero with
\* both signs), the neighbours of the thresholds, the receivers of the
\* source's test (1, 41, -41), and the extremes.
SigmoidInputs(fmt) ==
    {Dyadic(fmt, s, 4 * k, 0) : s \in {0, 1}, k \in 0..MaxGrid}
    \cup Around(fmt, Dyadic(fmt, 0, SigmoidThreshold, 0))
    \cup Around(fmt, Dyadic(fmt, 1, SigmoidThreshold, 0))
    \cup {Dyadic(fmt, s, k, 0) : s \in {0, 1}, k \in {1, SigmoidThreshold + 1}}
    \cup {MaxFinite(fmt, s) : s \in {0, 1}}
    \cup {MinSubnormal(fmt, s) : s \in {0, 1}}

\* ln_1pe: points either side of the threshold in ascending order; a call
\* pair is made on two different points x < y.
LnPoints(fmt) ==
    <<MaxFinite(fmt, 1), Dyadic(fmt, 1, 1000, 0), Dyadic(fmt, 1, 1, 0),
      Zero(0), Dyadic(fmt, 0, Ln1peThreshold - 1, 0),
      NextBelow(fmt, Dyadic(fmt, 0, Ln1peThreshold, 0)),
      Dyadic(fmt, 0, Ln1peThreshold, 0),
      NextAbove(fmt, Dyadic(fmt, 0, Ln1peThreshold, 0)),
      Dyadic(fmt, 0, Ln1peThreshold * 2^20 + 1, -20),
      Dyadic(fmt, 0, Ln1peThreshold + 1, 0), MaxFinite(fmt, 0)>>

LnPairs(fmt) ==
    {<<LnPoints(fmt)[ij[1]], LnPoints(fmt)[ij[2]]>> :
        ij \in {ij \in (1..Len(LnPoints(fmt))) \X (1..Len(LnPoints(fmt))) :
                    ij[1] < ij[2]}}

\* to_f32_bits: small integers and halves with both signs, the extremes,
\* values whose f64 patterns share a low word, and NaNs of either sign,
\* quiet and signaling, with and without payload.
BitsInputs(fmt) ==
    {Dyadic(fmt, s, k, e) : s \in {0, 1}, k \in 0..MaxGrid, e \in {-1, 0}}
    \cup {MaxFinite(fmt, 0), MinSubnormal(fmt, 0), Inf(0), Inf(1)}
    \cup {Dyadic(fmt, 0, 2^24 + 1, -24), Dyadic(fmt, 0, 2^30 + 1, -30),
          Dyadic(fmt, 0, 2^30 + 1, -29)}
    \cup {NaNOf(fmt, 1, <<>>), NaNOf(fmt, 0, <<>>), NaNOf(fmt, 0, <<1>>),
          NaNOf(fmt, 0, BFromNat(291)), SignalingNaN(0, <<1>>)}

\* --- the state machine: a call is made with its receivers and the ---
\* --- method is applied to each in turn                             ---

Fmt(name) == IF name = "f32" THEN F32 ELSE F64

Call(op, fmt, args) == [op |-> op, fmt |-> fmt.name, args |-> args, outs |-> <<>>]

Pending == Len(rcall.args) > Len(rcall.outs)

Receiver == rcall.args[Len(rcall.outs) + 1]

Return(out) ==
    /\ rcall' = [rcall EXCEPT !.outs = Append(@, out)]
    /\ UNCHANGED <<fvars, vvars>>

\* x.sigmoid()
Sigmoid ==
    /\ rcall.op = "sigmoid" /\ Pending
    /\ \E out \in sigmoid(Fmt(rcall.fmt), Receiver) : Return(out)

\* x.ln_1pe()
Ln1pe ==
    /\ rcall.op = "ln_1pe" /\ Pending
    /\ \E out \in ln_1pe(Fmt(rcall.fmt), Receiver) : Return(out)

\* x.to_f32_bits()
ToF32Bits ==
    /\ rcall.op = "to_f32_bits" /\ Pending
    /\ Return(to_f32_bits(Fmt(rcall.fmt), Receiver))

-----------------------------------------------------------------------------
(***************************************************************************)
(* Specifications: the three components share no state, and each is run    *)
(* with the others at rest.                                                *)
(***************************************************************************)

InitFailure ==
    /\ failures = <<>>
    /\ built = <<>>
    /\ fres = [op |-> "none"]
    /\ vfmt = F64
    /\ heap = <<>>
    /\ vres = [op |-> "none"]
    /\ pure = NoPure
    /\ rcall = [op |-> "none"]

SpecFailure == InitFailure /\ [][FNext]_vars

InitVector ==
    /\ vfmt \in Formats
    /\ heap = <<>>
    /\ vres = [op |-> "none"]
    /\ pure = NoPure
    /\ failures = <<>>
    /\ built = <<>>
    /\ fres = [op |-> "none"]
    /\ rcall = [op |-> "none"]

SpecVector == InitVector /\ [][VNext]_vars

\* The receivers of var(): every vector of up to MaxVarLen elements taken
\* from one of the groups below, and vectors of 2 * MaxVarLen and of
\* 4 * MaxVarLen elements all equal but the first or the last.
MaxVarLen == 4

\* Values a few units in the last place apart: the squares, their sums and
\* (for three elements) the mean all round.  The f64 values are
\* 7457325115173372, 7457325115173374 and 7457325115173377.
Close(fmt) ==
    IF fmt = F32
    THEN {Dyadic(F32, 0, 13850324, 0), Dyadic(F32, 0, 13850326, 0),
          Dyadic(F32, 0, 13850329, 0)}
    ELSE {Round(F64, 0, <<27132, 7405, 31127, 211>>, 0, FALSE),
          Round(F64, 0, <<27134, 7405, 31127, 211>>, 0, FALSE),
          Round(F64, 0, <<27137, 7405, 31127, 211>>, 0, FALSE)}

\* Zero, a negative value, and the value whose square is the least normal
\* number (2^-63 for f32, 2^-511 for f64).
Mixed(fmt) ==
    {Zero(0),
     FNeg(CHOOSE x \in Elems(fmt) : \A y \in Elems(fmt) : FLe(x, y)),
     Dyadic(fmt, 0, 1, (1 - fmt.emax) \div 2)}

\* Values whose squares are below the least normal number: 1, 2 and 3 times
\* 2^-76 for f32 (squares of 1/8, 1/2 and 9/8 of the least subnormal), and
\* 4, 5 and 7 times 2^-540 for f64.
Tiny(fmt) ==
    IF fmt = F32 THEN {Dyadic(F32, 0, k, -76) : k \in {1, 2, 3}}
    ELSE {Dyadic(F64, 0, k, -540) : k \in {4, 5, 7}}

\* The largest finite value, whose square overflows; 3 * 2^((emax - 3) / 2),
\* whose square is finite and added to itself overflows; and one.
Huge(fmt) ==
    {MaxFinite(fmt, 0), Dyadic(fmt, 0, 3, (fmt.emax - 3) \div 2), One(fmt)}

\* An infinity, a NaN and one.
NonFinite(fmt) == {Inf(0), NaNOf(fmt, 0, <<>>), One(fmt)}

VarGroups(fmt) ==
    {Elems(fmt), Close(fmt), Mixed(fmt), Tiny(fmt), Huge(fmt),
     NonFinite(fmt)}

LongArrays(fmt) ==
    {[i \in 1..n |-> IF i = (IF last THEN n ELSE 1) THEN b ELSE a] :
        n \in {2 * MaxVarLen, 4 * MaxVarLen}, last \in BOOLEAN,
        a \in Close(fmt), b \in Close(fmt)}

VarArrays(fmt) ==
    UNION {[1..n -> g] : n \in 0..MaxVarLen, g \in VarGroups(fmt)}
        \cup LongArrays(fmt)

\* let v = V::from_array(&arr); then v.var()
InitVar ==
    /\ vfmt \in Formats
    /\ \E arr \in VarArrays(vfmt) :
          /\ heap = <<from_array(arr)>>
          /\ vres = [op |-> "from_array", arg |-> arr, ret |-> 1]
    /\ pure = NoPure
    /\ failures = <<>>
    /\ built = <<>>
    /\ fres = [op |-> "none"]
    /\ rcall = [op |-> "none"]

SpecVar == InitVar /\ [][Var]_vars

InitSigmoid ==
    /\ rcall \in {Call("sigmoid", F32, <<x>>) : x \in SigmoidInputs(F32)}
                 \cup {Call("sigmoid", F64, <<x>>) : x \in SigmoidInputs(F64)}
    /\ failures = <<>>
    /\ built = <<>>
    /\ fres = [op |-> "none"]
    /\ vfmt = F64
    /\ heap = <<>>
    /\ vres = [op |-> "none"]
    /\ pure = NoPure

SpecSigmoid == InitSigmoid /\ [][Sigmoid]_vars

InitLn1pe ==
    /\ rcall \in {Call("ln_1pe", F32, xy) : xy \in LnPairs(F32)}
                 \cup {Call("ln_1pe", F64, xy) : xy \in LnPairs(F64)}
    /\ failures = <<>>
    /\ built = <<>>
    /\ fres = [op |-> "none"]
    /\ vfmt = F64
    /\ heap = <<>>
    /\ vres = [op |-> "none"]
    /\ pure = NoPure

SpecLn1pe == InitLn1pe /\ [][Ln1pe]_vars

InitToF32Bits ==
    /\ rcall \in {Call("to_f32_bits", F32, <<x, y>>) :
                    x \in BitsInputs(F32), y \in BitsInputs(F32)}
                 \cup {Call("to_f32_bits", F64, <<x, y>>) :
                    x \in BitsInputs(F64), y \in BitsInputs(F64)}
    /\ failures = <<>>
    /\ built = <<>>
    /\ fres = [op |-> "none"]
    /\ vfmt = F64
    /\ heap = <<>>
    /\ vres = [op |-> "none"]
    /\ pure = NoPure

SpecToF32Bits == InitToF32Bits /\ [][ToF32Bits]_vars

-----------------------------------------------------------------------------
(***************************************************************************)
(* Properties of the error taxonomy                                        *)
(***************************************************************************)

\* C1: Failure equality is structural: a == b exactly when the two Failures
\* have the same kind and the same message.
C1_StructuralEquality ==
    fres.op = "eq" =>
        LET a == failures[fres.a]
            b == failures[fres.b]
        IN  fres.out = (a.err = b.err /\ a.msg = b.msg)

\* C1 witness: a comparison of two Failures of the same kind with different
\* messages has answered "not equal".
C1_Witness ==
    /\ fres.op = "eq"
    /\ failures[fres.a].err = failures[fres.b].err
    /\ failures[fres.a].msg # failures[fres.b].msg
    /\ fres.out = FALSE

\* The ordinals the interface documents.
StableOrdinal ==
    [k \in Kinds |->
        CASE k = "FitFailed" -> 1
          [] k = "PredictFailed" -> 2
          [] k = "TransformFailed" -> 3
          [] k = "FindFailed" -> 4
          [] k = "DecompositionFailed" -> 5
          [] k = "SolutionFailed" -> 6]

\* C2: the six kinds carry the ordinals 1..6 in declaration order, pairwise
\* distinct and non-zero, and two kinds compare equal exactly when their
\* 8-bit ordinals are equal.
C2_StableOrdinals ==
    fres.op = "kind_eq" =>
        /\ fres.ua = StableOrdinal[fres.a]
        /\ fres.ub = StableOrdinal[fres.b]
        /\ fres.ua \in 1..6 /\ fres.ub \in 1..6
        /\ (fres.a # fres.b => fres.ua # fres.ub)
        /\ fres.out = (fres.ua = fres.ub)
        /\ fres.out = (fres.a = fres.b)

\* C2 witness: two different kinds were compared and found unequal.
C2_Witness ==
    /\ fres.op = "kind_eq"
    /\ fres.a = "SolutionFailed" /\ fres.b = "FitFailed"
    /\ fres.ua = 6 /\ fres.ub = 1
    /\ fres.out = FALSE

\* C3: fit / predict / transform build FitFailed / PredictFailed /
\* TransformFailed, because(kind, msg) builds the given kind, the message is
\* exactly msg, and no later public operation changes what error() returns
\* or the message.
C3_ConstructionAndFrame ==
    /\ Len(failures) = Len(built)
    /\ \A i \in 1..Len(failures) :
          /\ error(failures[i]) = built[i].err
          /\ failures[i].msg = built[i].msg
    /\ fres.op \in {"fit", "predict", "transform", "because"} =>
          /\ failures[fres.ret].msg = fres.msg
          /\ error(failures[fres.ret]) =
                CASE fres.op = "fit" -> "FitFailed"
                  [] fres.op = "predict" -> "PredictFailed"
                  [] fres.op = "transform" -> "TransformFailed"
                  [] fres.op = "because" -> fres.kind
    /\ fres.op = "error" => fres.out = built[fres.a].err

\* C3 witness: a Failure built by transform is still TransformFailed after a
\* later error() call on it.
C3_Witness ==
    /\ fres.op = "error"
    /\ fres.out = "TransformFailed"
    /\ Len(failures) = MaxFailures

IsPrefix(p, s) == Len(p) <= Len(s) /\ SubSeq(s, 1, Len(p)) = p

\* C4: displaying a Failure gives the kind-text, then ": ", then the message
\* unchanged; the kind-text depends on the kind only, FitFailed gives
\* "Fit failed", and no other kind yields the same kind prefix.
C4_DisplayFormat ==
    fres.op = "display" =>
        LET f == failures[fres.a]
            kt == DisplayFailedError(f.err)
            n == Len(kt)
        IN  /\ Len(fres.out) = n + 2 + Len(f.msg)
            /\ SubSeq(fres.out, 1, n) = kt
            /\ SubSeq(fres.out, n + 1, n + 2) = ": "
            /\ SubSeq(fres.out, n + 3, Len(fres.out)) = f.msg
            /\ (f.err = "FitFailed" => kt = "Fit failed")
            /\ \A k \in Kinds \ {f.err} :
                  /\ DisplayFailedError(k) # kt
                  /\ ~IsPrefix(DisplayFailedError(k) \o ": ", fres.out)

\* C4 witness: a FitFailed Failure with a message that itself contains ": "
\* has been displayed.
C4_Witness ==
    /\ fres.op = "display"
    /\ failures[fres.a] = [err |-> "FitFailed", msg |-> "a: b"]
    /\ fres.out = "Fit failed: a: b"

-----------------------------------------------------------------------------
(***************************************************************************)
(* Properties of the real-number helpers                                   *)
(***************************************************************************)

SigmoidDone == rcall.op = "sigmoid" /\ Len(rcall.outs) = 1

\* C5: for every finite x, sigmoid(x) lies in [0, 1]; it is exactly 0 when
\* x < -40 and exactly 1 when x > 40; for -40 <= x <= 40, bounds included,
\* it is 1 / (1 + exp(-x)) evaluated in the value's own format; sigmoid(0)
\* is one half.
C5_SigmoidRange ==
    SigmoidDone =>
        LET fmt == Fmt(rcall.fmt)
            x   == rcall.args[1]
            out == rcall.outs[1]
            lo  == Dyadic(fmt, 1, SigmoidThreshold, 0)
            hi  == Dyadic(fmt, 0, SigmoidThreshold, 0)
        IN  /\ FLe(Zero(0), out) /\ FLe(out, One(fmt))
            /\ FLt(x, lo) => out = Zero(0)
            /\ FGt(x, hi) => out = One(fmt)
            /\ (FGe(x, lo) /\ FLe(x, hi)) => out \in SigmoidFormula(fmt, x)
            /\ IsZero(x) => out = half(fmt)

\* The call at the lower threshold itself: the formula is evaluated and the
\* result is small but not zero.
C5_Witness ==
    /\ SigmoidDone
    /\ rcall.args[1] = Dyadic(Fmt(rcall.fmt), 1, SigmoidThreshold, 0)
    /\ FGt(rcall.outs[1], Zero(0))
    /\ FLt(rcall.outs[1], Dyadic(Fmt(rcall.fmt), 0, 1, -50))

Ln1peDone == rcall.op = "ln_1pe" /\ Len(rcall.outs) = 2

\* C6: ln_1pe is monotonically non-decreasing: for finite x <= y,
\* ln_1pe(x) <= ln_1pe(y).
C6_Ln1peMonotone ==
    (Ln1peDone /\ FLe(rcall.args[1], rcall.args[2])) =>
        FLe(rcall.outs[1], rcall.outs[2])

BitsDone == rcall.op = "to_f32_bits" /\ Len(rcall.outs) = 2

\* Bit i of the two patterns agree for every i below 32.
SameLow32(a, b) == \A i \in 0..31 : BBit(a, i) = BBit(b, i)

\* C10: to_f32_bits returns the low 32 bits of the value's own bit pattern:
\* for f32 that is the whole pattern, so values with different patterns
\* give different results; for f64 the upper 32 bits are discarded, so two
\* values whose patterns differ only there give the same result.
C10_ToF32BitsLowWord ==
    BitsDone =>
        LET fmt == Fmt(rcall.fmt)
            bx  == ToBits(fmt, rcall.args[1])
            by  == ToBits(fmt, rcall.args[2])
            ox  == rcall.outs[1]
            oy  == rcall.outs[2]
        IN  /\ BBitLen(ox) <= 32 /\ BBitLen(oy) <= 32
            /\ SameLow32(ox, bx) /\ SameLow32(oy, by)
            /\ fmt = F32 => (ox = bx /\ oy = by /\ ((ox = oy) <=> (bx = by)))
            /\ (fmt = F64 /\ SameLow32(bx, by)) => ox = oy

\* Two f64 values with different patterns that agree in the low word and a
\* non-zero low word: 1 + 2^-30 and 2 + 2^-29 share the low word 2^22.
C10_Witness ==
    /\ BitsDone
    /\ rcall.fmt = "f64"
    /\ ToBits(F64, rcall.args[1]) # ToBits(F64, rcall.args[2])
    /\ rcall.outs[1] = rcall.outs[2]
    /\ rcall.outs[1] # <<>>

-----------------------------------------------------------------------------
(***************************************************************************)
(* Properties of the vector helpers                                        *)
(***************************************************************************)

\* The elements of v are finite; two elements of v differ.
AllFinite(v) == \A i \in 1..Len(v) : IsFinite(v[i])
HasDistinct(v) == \E i, j \in 1..Len(v) : i < j /\ ~ FEq(v[i], v[j])

\* The least exponent of the squares of the elements of v.
MinSquareExp(v) ==
    CHOOSE e \in {2 * v[i].q : i \in 1..Len(v)} :
        \A i \in 1..Len(v) : e <= 2 * v[i].q

\* The exact sum of the squares of elements lo..hi of v, in units of 2^e.
RECURSIVE SumSquaresRange(_, _, _, _)
SumSquaresRange(v, e, lo, hi) ==
    IF lo > hi THEN <<>>
    ELSE IF lo = hi THEN BShl(BMul(v[lo].m, v[lo].m), 2 * v[lo].q - e)
    ELSE LET mid == (lo + hi) \div 2
             low == SumSquaresRange(v, e, lo, mid)
             high == SumSquaresRange(v, e, mid + 1, hi)
         IN  IF low = <<>> THEN high
             ELSE IF high = <<>> THEN low
             ELSE BAdd(low, high)

SumSquares(v, e) == SumSquaresRange(v, e, 1, Len(v))

\* a * 2^ea <= b * 2^eb, exactly
DyadicLe(a, ea, b, eb) ==
    LET e == IF ea < eb THEN ea ELSE eb
    IN  BCmp(BShl(a, ea - e), BShl(b, eb - e)) <= 0

\* out >= -c * 2^-p * (sum of x_i^2) / n - 2 * tiny for the finite elements
\* of v (n of them), exactly; tiny = 2^QMin is the least positive value of
\* the format.  Multiplied by n: when out is negative,
\* n * |out| <= c * 2^-p * (sum of x_i^2) + 2 * n * tiny.
AtLeast(fmt, v, out, c) ==
    \/ IsZero(out)
    \/ out.s = 0
    \/ LET n == Len(v)
           e == MinSquareExp(v)
           u == IF e - fmt.p < QMin(fmt) THEN e - fmt.p ELSE QMin(fmt)
       IN  DyadicLe(BMulSmall(out.m, n), out.q,
                    BAdd(BShl(BMulSmall(SumSquares(v, e), c), e - fmt.p - u),
                         BShl(BFromNat(2 * n), QMin(fmt) - u)),
                    u)

\* The values the sum of squares may have after the loop of var().
SquareSums(fmt, v) ==
    {acc[2] : acc \in var_loop(fmt, v, 0, {<<Zero(0), Zero(0)>>})}

\* An element of v is not finite, or the sum of squares overflows as the
\* loop accumulates it.
Overflows(fmt, v) ==
    ~ AllFinite(v) \/ \E s \in SquareSums(fmt, v) : ~ IsFinite(s)

\* n <= 2^(p-5): the lengths for which the coefficient 4n + 4 covers the
\* rounding errors of the 3n + 3 operations of var() ((2n + 1) * 2^-p is at
\* most 1/16 + 2^-p).
LengthInRange(fmt, v) ==
    BCmp(BFromNat(Len(v)), BShl(<<1>>, fmt.p - 5)) <= 0

VarDone == vres.op = "var" /\ HasDistinct(heap[vres.recv])

\* C7, as stated: for a vector with at least two distinct elements, var()
\* is non-negative.
C7_VarNonNegative == VarDone => FGe(vres.out, Zero(0))

\* C7, amended: rounding can make var() negative, but never by more than a
\* rounding-sized fraction of the mean square.  For a vector of
\* n = len() <= 2^(p-5) elements with at least two distinct ones, all finite,
\* whose sum of squares does not overflow as the loop accumulates it, var()
\* is finite and
\*   var() >= -(4n + 4) * 2^-p * (x_0^2 + ... + x_(n-1)^2) / n - 2 * tiny,
\* where p is the precision of the element type (24 for f32, 53 for f64)
\* and tiny its least positive value (2^-149 for f32, 2^-1074 for f64).
\* When an element is not finite or the sum of squares overflows, var() is
\* +infinity or NaN.
C7_VarLowerBound ==
    VarDone =>
        LET v == heap[vres.recv]
        IN  IF Overflows(vfmt, v)
            THEN vres.out.cls = "nan" \/ vres.out = Inf(0)
            ELSE LengthInRange(vfmt, v) =>
                    /\ IsFinite(vres.out)
                    /\ AtLeast(vfmt, v, vres.out, 4 * Len(v) + 4)

\* var() of three or more finite elements whose sum of squares does not
\* overflow came out below -n * 2^-p * (sum of x_i^2) / n - 2 * tiny: the
\* bound has to grow with n.
C7_Witness ==
    /\ VarDone
    /\ Len(heap[vres.recv]) >= 3
    /\ ~ Overflows(vfmt, heap[vres.recv])
    /\ LengthInRange(vfmt, heap[vres.recv])
    /\ ~ AtLeast(vfmt, heap[vres.recv], vres.out, Len(heap[vres.recv]))

\* The element-wise results the in-place operation named op may leave in a.
InPlace(op, fmt, a, b) ==
    CASE op = "add" -> add_mut(fmt, a, b)
      [] op = "sub" -> sub_mut(fmt, a, b)
      [] op = "mul" -> mul_mut(fmt, a, b)
      [] op = "div" -> div_mut(fmt, a, b)

\* C8: add, sub, mul and div leave the receiver and the argument unchanged
\* and return a new vector holding the element-wise result; changing the
\* returned vector afterwards does not change the receiver or the argument.
C8_PureOperations ==
    pure.op # "none" =>
        /\ pure.ret \notin {pure.recv, pure.arg}
        /\ heap[pure.recv] = pure.recvWas
        /\ heap[pure.arg] = pure.argWas
        /\ Len(pure.out) = Len(pure.recvWas)
        /\ vres.op = pure.op =>
              /\ heap[pure.ret] = pure.out
              /\ pure.out \in InPlace(pure.op, vfmt, clone(pure.recvWas),
                                    pure.argWas)

\* The vector an operation returned has been changed, it now differs from
\* what was returned, and receiver and argument are different vectors.
C8_Witness ==
    /\ pure.op = "add"
    /\ vres.op = "set"
    /\ pure.recv # pure.arg
    /\ heap[pure.ret] # pure.out
    /\ pure.out # pure.recvWas

\* C9: from_array produces a vector of the array's length whose element i
\* is the array's element i; the empty array gives an empty vector; and
\* from_array(to_vec(v)) has the length and the elements of v.
C9_FromArrayPreserves ==
    /\ vres.op = "from_array" =>
          LET v == heap[vres.ret]
          IN  /\ len(v) = Len(vres.arg)
              /\ \A i \in 0..(Len(vres.arg) - 1) : get(v, i) = vres.arg[i + 1]
              /\ is_empty(v) <=> vres.arg = <<>>
    /\ vres.op = "round_trip" =>
          LET v == heap[vres.recv]
              w == heap[vres.ret]
          IN  /\ len(w) = len(v)
              /\ \A i \in 0..(len(v) - 1) : get(w, i) = get(v, i)
    /\ vres.op = "is_empty" => (vres.out <=> len(heap[vres.recv]) = 0)

\* A round trip of a vector of two different elements.
C9_Witness ==
    /\ vres.op = "round_trip"
    /\ len(heap[vres.ret]) = 2
    /\ get(heap[vres.ret], 0) # get(heap[vres.ret], 1)
    /\ get(heap[vres.recv], 0) = get(heap[vres.ret], 0)

=============================================================================
